---- MODULE Spec2Model ----
(***************************************************************************)
(* go-middle: the self-refreshing remote public key (crypto/key.go) and    *)
(* the bearer-token middleware built on it (middleware/verify.go).         *)
(*                                                                         *)
(* Goroutines: the main goroutine (app) that calls VerifyToken() or        *)
(* NewRemotePublicKey(); the autoRefresh goroutine (bg); and the request   *)
(* goroutines (Procs) that run the gin handler or call Get().              *)
(* Every suspension point and every access to shared memory is its own     *)
(* step; purely local computation between two such points is one step.     *)
(***************************************************************************)
EXTENDS Integers, Sequences, FiniteSets, TLC

\* ---------------------------------------------------------------- bounds
\* The clock counts periods of five minutes and stops at MaxClock.
MaxClock == 2
\* At most MaxFetches calls of refresh() start (the first is the constructor's).
MaxFetches == 3
\* The longest header, in lexemes, of the specification SpecHeaders.
MaxHdrLen == 5

\* ------------------------------------------------------- program constants
\* 5*time.Minute, the interval VerifyToken passes to NewRemotePublicKey: one
\* unit of the clock.
DefaultRefresh == 1
\* http.StatusUnauthorized
StatusUnauthorized == 401
\* The zero time.Time of a RemotePublicKey that was never refreshed.
ZeroTime == -1

\* ------------------------------------------------------------------ inputs
Procs == {"p1", "p2"}
Tasks == {"ctor", "bg"}

\* Key material: two RSA keys the endpoint may serve, and one EC key.
RSAKeys == {"rsaA", "rsaB"}
ECKey == "ecC"

\* Response bodies of the key endpoint.  pem: the body holds a PEM block;
\* der: what the block's bytes are; key: the key material they encode.
Bodies ==
    {[pem |-> FALSE, der |-> "none", key |-> "none"],
     [pem |-> TRUE, der |-> "bad", key |-> "none"],
     [pem |-> TRUE, der |-> "ec", key |-> ECKey]}
    \cup {[pem |-> TRUE, der |-> "rsa", key |-> k] : k \in RSAKeys}

\* PUBLIC_KEY_URL as the environment may give it.
KeyURL == "http://keys/public.pem"
EnvValues == {"", KeyURL}
\* refreshEvery values a direct caller of NewRemotePublicKey passes.
Intervals == {0, 2}

Configs ==
    {[mode |-> "middleware", env |-> e, every |-> DefaultRefresh] : e \in EnvValues}
    \cup {[mode |-> "direct", env |-> KeyURL, every |-> d] : d \in Intervals}

Nil == 0
NoErr == "nil"

\* ------------------------------------------------------------------- state
VARIABLES
    cfg,          \* how the program uses the package (fixed input)
    app,          \* position of the main goroutine
    url,          \* r.url
    refreshEvery, \* r.refreshEvery
    publicKey,    \* r.publicKey: a pointer (index into heap), Nil before the first store
    lastUpdated,  \* r.lastUpdated
    mu,           \* r.mu
    heap,         \* the rsa.PublicKey objects r.publicKey has pointed to
    ret,          \* what NewRemotePublicKey returned
    handler,      \* VerifyToken returned its gin.HandlerFunc
    rf,           \* the activation of refresh() of each task
    bg,           \* position of the autoRefresh goroutine
    ticker,       \* the time.Ticker of autoRefresh
    clock,        \* time.Now()
    crashed,      \* the process died of a panic
    nfetch,       \* number of refresh() calls started
    hp            \* the request goroutines

vars == <<cfg, app, url, refreshEvery, publicKey, lastUpdated, mu, heap, ret,
          handler, rf, bg, ticker, clock, crashed, nfetch, hp>>

\* ----------------------------------------------------- refresh(): helpers
NoBody == [pem |-> FALSE, der |-> "nil", key |-> "none"]
NoResp == [body |-> NoBody]
NoBlock == [nil |-> TRUE, der |-> "nil", key |-> "none"]
NoPub == [err |-> NoErr, typ |-> "nil", key |-> "none"]
NoPre == [key |-> Nil, ts |-> ZeroTime]

IdleFrame ==
    [pc |-> "idle", resp |-> NoResp, raw |-> NoBody, block |-> NoBlock,
     pub |-> NoPub, err |-> NoErr, pre |-> NoPre]

\* block, _ := pem.Decode(raw): the first PEM block of the body, or nil.
pemDecode(raw) ==
    IF raw.pem THEN [nil |-> FALSE, der |-> raw.der, key |-> raw.key]
    ELSE NoBlock

\* pub, err := x509.ParsePKIXPublicKey(block.Bytes): a public key of the
\* algorithm the bytes name, or an error when they are no PKIX structure.
ParsePKIXPublicKey(block) ==
    IF block.der \in {"rsa", "ec"}
    THEN [err |-> NoErr, typ |-> block.der, key |-> block.key]
    ELSE [err |-> "x509: failed to parse", typ |-> "nil", key |-> "none"]

\* Bug: the type assertion accepts any parsed public key.
IsRSAPublicKeyAny(pub) == pub.typ # "nil"

\* rsaPub, ok := pub.(*rsa.PublicKey)
IsRSAPublicKey(pub) == pub.typ = "rsa"

\* refresh() is entered: its locals are fresh.  pre records r.publicKey and
\* r.lastUpdated at entry (history, not program state).
EnterRefresh(t) ==
    rf' = [rf EXCEPT ![t] = [IdleFrame EXCEPT !.pc = "get",
                                              !.pre = [key |-> publicKey,
                                                       ts |-> lastUpdated]]]

\* Bug: a failed refresh clears the cached key.
ReturnErrClearsKey(t, e) ==
    /\ rf' = [rf EXCEPT ![t] = [IdleFrame EXCEPT !.pc = "ret", !.err = e,
                                                 !.pre = rf[t].pre]]
    /\ publicKey' = Nil
    /\ UNCHANGED <<lastUpdated, heap, mu>>

\* Bug: a failed refresh stamps lastUpdated all the same.
ReturnErrTouchesTime(t, e) ==
    /\ rf' = [rf EXCEPT ![t] = [IdleFrame EXCEPT !.pc = "ret", !.err = e,
                                                 !.pre = rf[t].pre]]
    /\ lastUpdated' = clock
    /\ UNCHANGED <<publicKey, heap, mu>>

\* return err: before anything was stored.
ReturnErr(t, e) ==
    /\ rf' = [rf EXCEPT ![t] = [IdleFrame EXCEPT !.pc = "ret", !.err = e,
                                                 !.pre = rf[t].pre]]
    /\ UNCHANGED <<publicKey, lastUpdated, heap, mu>>

Alive == ~crashed

\* ------------------------------------------------------ refresh(): steps
\* resp, err := http.Get(r.url) fails.
HttpGetErr(t) ==
    /\ Alive /\ rf[t].pc = "get"
    /\ ReturnErr(t, "http.Get")
    /\ UNCHANGED <<cfg, app, url, refreshEvery, ret, handler, bg, ticker,
                   clock, crashed, nfetch, hp>>

\* http.Get returns a response: the endpoint sends any of its bodies.
HttpGetOK(t) ==
    /\ Alive /\ rf[t].pc = "get"
    /\ \E b \in Bodies :
          rf' = [rf EXCEPT ![t].pc = "read", ![t].resp = [body |-> b]]
    /\ UNCHANGED <<cfg, app, url, refreshEvery, publicKey, lastUpdated, mu,
                   heap, ret, handler, bg, ticker, clock, crashed, nfetch, hp>>

\* Bug: refresh() takes the write lock before the network call.
HttpGetHangLocked(t) ==
    /\ Alive /\ rf[t].pc = "get"
    /\ rf' = [rf EXCEPT ![t].pc = "hung"]
    /\ mu' = [mu EXCEPT !.writer = TRUE]
    /\ UNCHANGED <<cfg, app, url, refreshEvery, publicKey, lastUpdated,
                   heap, ret, handler, bg, ticker, clock, crashed, nfetch, hp>>

\* http.Get never returns (no timeout is set): the caller stays in it.
HttpGetHang(t) ==
    /\ Alive /\ rf[t].pc = "get"
    /\ rf' = [rf EXCEPT ![t].pc = "hung"]
    /\ UNCHANGED <<cfg, app, url, refreshEvery, publicKey, lastUpdated, mu,
                   heap, ret, handler, bg, ticker, clock, crashed, nfetch, hp>>

\* raw, err := io.ReadAll(resp.Body): the whole body arrives, or the
\* connection breaks.
ReadAll(t) ==
    /\ Alive /\ rf[t].pc = "read"
    /\ \E ok \in BOOLEAN :
          IF ok
          THEN /\ rf' = [rf EXCEPT ![t].pc = "decode", ![t].raw = rf[t].resp.body]
               /\ UNCHANGED <<publicKey, lastUpdated, heap, mu>>
          ELSE ReturnErr(t, "io.ReadAll")
    /\ UNCHANGED <<cfg, app, url, refreshEvery, ret, handler, bg, ticker,
                   clock, crashed, nfetch, hp>>

\* block, _ := pem.Decode(raw); if block == nil { return "invalid PEM" }
PemDecode(t) ==
    /\ Alive /\ rf[t].pc = "decode"
    /\ LET block == pemDecode(rf[t].raw) IN
       IF block.nil
       THEN ReturnErr(t, "invalid PEM")
       ELSE /\ rf' = [rf EXCEPT ![t].pc = "parse", ![t].block = block]
            /\ UNCHANGED <<publicKey, lastUpdated, heap, mu>>
    /\ UNCHANGED <<cfg, app, url, refreshEvery, ret, handler, bg, ticker,
                   clock, crashed, nfetch, hp>>

\* pub, err := x509.ParsePKIXPublicKey(block.Bytes); if err != nil { return err }
ParseKey(t) ==
    /\ Alive /\ rf[t].pc = "parse"
    /\ LET pub == ParsePKIXPublicKey(rf[t].block) IN
       IF pub.err # NoErr
       THEN ReturnErr(t, pub.err)
       ELSE /\ rf' = [rf EXCEPT ![t].pc = "assert", ![t].pub = pub]
            /\ UNCHANGED <<publicKey, lastUpdated, heap, mu>>
    /\ UNCHANGED <<cfg, app, url, refreshEvery, ret, handler, bg, ticker,
                   clock, crashed, nfetch, hp>>

\* rsaPub, ok := pub.(*rsa.PublicKey); if !ok { return "not RSA public key" }
AssertRSA(t) ==
    /\ Alive /\ rf[t].pc = "assert"
    /\ IF IsRSAPublicKey(rf[t].pub)
       THEN /\ rf' = [rf EXCEPT ![t].pc = "lock"]
            /\ UNCHANGED <<publicKey, lastUpdated, heap, mu>>
       ELSE ReturnErr(t, "not RSA public key")
    /\ UNCHANGED <<cfg, app, url, refreshEvery, ret, handler, bg, ticker,
                   clock, crashed, nfetch, hp>>

\* r.mu.Lock(), first half: the writer announces itself; readers that call
\* RLock from now on wait (sync.RWMutex prefers the waiting writer).
LockCall(t) ==
    /\ Alive /\ rf[t].pc = "lock"
    /\ ~mu.writer /\ ~mu.pending
    /\ mu' = [mu EXCEPT !.pending = TRUE]
    /\ rf' = [rf EXCEPT ![t].pc = "lockwait"]
    /\ UNCHANGED <<cfg, app, url, refreshEvery, publicKey, lastUpdated, heap,
                   ret, handler, bg, ticker, clock, crashed, nfetch, hp>>

\* Bug: Lock does not wait for the readers that are inside.
LockAcquireNoWait(t) ==
    /\ Alive /\ rf[t].pc = "lockwait"
    /\ mu' = [mu EXCEPT !.pending = FALSE, !.writer = TRUE]
    /\ rf' = [rf EXCEPT ![t].pc = "setkey"]
    /\ UNCHANGED <<cfg, app, url, refreshEvery, publicKey, lastUpdated, heap,
                   ret, handler, bg, ticker, clock, crashed, nfetch, hp>>

\* r.mu.Lock(), second half: the readers inside have left; the lock is held.
LockAcquire(t) ==
    /\ Alive /\ rf[t].pc = "lockwait"
    /\ mu.readers = {}
    /\ mu' = [mu EXCEPT !.pending = FALSE, !.writer = TRUE]
    /\ rf' = [rf EXCEPT ![t].pc = "setkey"]
    /\ UNCHANGED <<cfg, app, url, refreshEvery, publicKey, lastUpdated, heap,
                   ret, handler, bg, ticker, clock, crashed, nfetch, hp>>

\* Bug: the new key is copied into the object the field points to
\* (*r.publicKey = *rsaPub) instead of the pointer being replaced.
StoreKeyInPlace(t) ==
    IF publicKey = Nil
    THEN /\ heap' = Append(heap, rf[t].pub.key)
         /\ publicKey' = Len(heap) + 1
    ELSE /\ heap' = [heap EXCEPT ![publicKey] = rf[t].pub.key]
         /\ UNCHANGED publicKey

\* r.publicKey = rsaPub: the field takes the pointer to the key object that
\* ParsePKIXPublicKey allocated; the object it pointed to before is untouched.
StoreKey(t) ==
    /\ heap' = Append(heap, rf[t].pub.key)
    /\ publicKey' = Len(heap) + 1

AssignKey(t) ==
    /\ Alive /\ rf[t].pc = "setkey"
    /\ StoreKey(t)
    /\ rf' = [rf EXCEPT ![t].pc = "settime"]
    /\ UNCHANGED <<cfg, app, url, refreshEvery, lastUpdated, mu, ret, handler,
                   bg, ticker, clock, crashed, nfetch, hp>>

\* Bug: the time is stamped only when the key that was fetched differs from
\* the one the cache held.
AssignTimeIfChanged(t) ==
    /\ Alive /\ rf[t].pc = "settime"
    /\ lastUpdated' = IF rf[t].pre.key # Nil /\ rf[t].pub.key = heap[rf[t].pre.key]
                      THEN lastUpdated ELSE clock
    /\ rf' = [rf EXCEPT ![t].pc = "unlock"]
    /\ UNCHANGED <<cfg, app, url, refreshEvery, publicKey, mu, heap, ret,
                   handler, bg, ticker, clock, crashed, nfetch, hp>>

\* r.lastUpdated = time.Now()
AssignTime(t) ==
    /\ Alive /\ rf[t].pc = "settime"
    /\ lastUpdated' = clock
    /\ rf' = [rf EXCEPT ![t].pc = "unlock"]
    /\ UNCHANGED <<cfg, app, url, refreshEvery, publicKey, mu, heap, ret,
                   handler, bg, ticker, clock, crashed, nfetch, hp>>

\* Bug: refresh() returns without r.mu.Unlock().
UnlockForgotten(t) ==
    /\ Alive /\ rf[t].pc = "unlock"
    /\ rf' = [rf EXCEPT ![t].pc = "ret", ![t].err = NoErr]
    /\ UNCHANGED <<cfg, app, url, refreshEvery, publicKey, lastUpdated, heap,
                   mu, ret, handler, bg, ticker, clock, crashed, nfetch, hp>>

\* r.mu.Unlock(); return nil
Unlock(t) ==
    /\ Alive /\ rf[t].pc = "unlock"
    /\ mu' = [mu EXCEPT !.writer = FALSE]
    /\ rf' = [rf EXCEPT ![t].pc = "ret", ![t].err = NoErr]
    /\ UNCHANGED <<cfg, app, url, refreshEvery, publicKey, lastUpdated, heap,
                   ret, handler, bg, ticker, clock, crashed, nfetch, hp>>

\* ------------------------------------------- NewRemotePublicKey, VerifyToken
\* r := &RemotePublicKey{url, refreshEvery}; r.refresh() is entered.
NewRemotePublicKeyCall(u, d) ==
    /\ url' = u
    /\ refreshEvery' = d
    /\ EnterRefresh("ctor")
    /\ nfetch' = nfetch + 1
    /\ app' = "ctor"

\* VerifyToken(): LoadEnv, GetEnv("PUBLIC_KEY_URL"); panic when it is empty,
\* else NewRemotePublicKey(publicKeyURL, 5*time.Minute).
VerifyTokenStart ==
    /\ Alive /\ app = "start" /\ cfg.mode = "middleware"
    /\ IF cfg.env = ""
       THEN /\ crashed' = TRUE
            /\ app' = "panicked"
            /\ UNCHANGED <<url, refreshEvery, rf, nfetch>>
       ELSE /\ NewRemotePublicKeyCall(cfg.env, DefaultRefresh)
            /\ UNCHANGED crashed
    /\ UNCHANGED <<cfg, publicKey, lastUpdated, mu, heap, ret, handler, bg,
                   ticker, clock, hp>>

\* A program that calls NewRemotePublicKey itself, with its own interval.
DirectStart ==
    /\ Alive /\ app = "start" /\ cfg.mode = "direct"
    /\ NewRemotePublicKeyCall(cfg.env, cfg.every)
    /\ UNCHANGED <<cfg, publicKey, lastUpdated, mu, heap, ret, handler, bg,
                   ticker, clock, crashed, hp>>

\* Bug: the error of the first refresh is dropped.
NewRemotePublicKeyReturnIgnoresErr ==
    /\ Alive /\ app = "ctor" /\ rf["ctor"].pc = "ret"
    /\ ret' = [done |-> TRUE, r |-> TRUE, err |-> NoErr]
    /\ bg' = "newticker"
    /\ app' = "returned"
    /\ UNCHANGED <<cfg, url, refreshEvery, publicKey, lastUpdated, mu, heap,
                   handler, rf, ticker, clock, crashed, nfetch, hp>>

\* if err := r.refresh(); err != nil { return nil, err }
\* go r.autoRefresh(); return r, nil
NewRemotePublicKeyReturn ==
    /\ Alive /\ app = "ctor" /\ rf["ctor"].pc = "ret"
    /\ IF rf["ctor"].err # NoErr
       THEN /\ ret' = [done |-> TRUE, r |-> FALSE, err |-> rf["ctor"].err]
            /\ UNCHANGED bg
       ELSE /\ ret' = [done |-> TRUE, r |-> TRUE, err |-> NoErr]
            /\ bg' = "newticker"
    /\ app' = "returned"
    /\ UNCHANGED <<cfg, url, refreshEvery, publicKey, lastUpdated, mu, heap,
                   handler, rf, ticker, clock, crashed, nfetch, hp>>

\* if err != nil { panic(...) }; return func(c *gin.Context) {...}
VerifyTokenFinish ==
    /\ Alive /\ app = "returned" /\ cfg.mode = "middleware"
    /\ IF ret.err # NoErr
       THEN /\ crashed' = TRUE
            /\ app' = "panicked"
            /\ UNCHANGED handler
       ELSE /\ handler' = TRUE
            /\ app' = "serving"
            /\ UNCHANGED crashed
    /\ UNCHANGED <<cfg, url, refreshEvery, publicKey, lastUpdated, mu, heap,
                   ret, rf, bg, ticker, clock, nfetch, hp>>

\* The direct caller holds r when err is nil, and nothing otherwise.
DirectFinish ==
    /\ Alive /\ app = "returned" /\ cfg.mode = "direct"
    /\ app' = IF ret.r THEN "serving" ELSE "failed"
    /\ UNCHANGED <<cfg, url, refreshEvery, publicKey, lastUpdated, mu, heap,
                   ret, handler, rf, bg, ticker, clock, crashed, nfetch, hp>>

\* ------------------------------------------------------------ autoRefresh
\* ticker := time.NewTicker(r.refreshEvery): panics for a non-positive
\* interval, and a panic in a goroutine ends the process.
NewTicker ==
    /\ Alive /\ bg = "newticker"
    /\ IF refreshEvery <= 0
       THEN /\ crashed' = TRUE
            /\ bg' = "dead"
            /\ UNCHANGED ticker
       ELSE /\ ticker' = [on |-> TRUE, c |-> FALSE, next |-> clock + refreshEvery]
            /\ bg' = "wait"
            /\ UNCHANGED crashed
    /\ UNCHANGED <<cfg, app, url, refreshEvery, publicKey, lastUpdated, mu,
                   heap, ret, handler, rf, clock, nfetch, hp>>

\* Bug: a tick that arrives while a refresh runs starts a second refresh
\* next to it (go r.refresh()), in the frame the constructor has left.
TickerRecvSpawns ==
    /\ Alive /\ ticker.c
    /\ nfetch < MaxFetches
    /\ \/ /\ bg = "wait"
          /\ bg' = "refresh"
          /\ EnterRefresh("bg")
       \/ /\ bg = "refresh" /\ rf["ctor"].pc = "ret"
          /\ UNCHANGED bg
          /\ EnterRefresh("ctor")
    /\ ticker' = [ticker EXCEPT !.c = FALSE]
    /\ nfetch' = nfetch + 1
    /\ UNCHANGED <<cfg, app, url, refreshEvery, publicKey, lastUpdated, mu,
                   heap, ret, handler, clock, crashed, hp>>

\* for range ticker.C { ...: a tick is received and r.refresh() is entered.
TickerRecv ==
    /\ Alive /\ bg = "wait" /\ ticker.c
    /\ nfetch < MaxFetches
    /\ ticker' = [ticker EXCEPT !.c = FALSE]
    /\ bg' = "refresh"
    /\ EnterRefresh("bg")
    /\ nfetch' = nfetch + 1
    /\ UNCHANGED <<cfg, app, url, refreshEvery, publicKey, lastUpdated, mu,
                   heap, ret, handler, clock, crashed, hp>>

\* Bug: after a failed refresh the loop backs off: it resets the ticker, so
\* that a waiting tick is lost and the next one comes an interval later.
AutoRefreshLoopBacksOff ==
    /\ Alive /\ bg = "refresh" /\ rf["bg"].pc = "ret"
    /\ bg' = "wait"
    /\ rf' = [rf EXCEPT !["bg"] = IdleFrame]
    /\ ticker' = IF rf["bg"].err # NoErr
                 THEN [ticker EXCEPT !.c = FALSE, !.next = @ + refreshEvery]
                 ELSE ticker
    /\ UNCHANGED <<cfg, app, url, refreshEvery, publicKey, lastUpdated, mu,
                   heap, ret, handler, clock, crashed, nfetch, hp>>

\* _ = r.refresh(): the result is dropped and the loop waits for the next tick.
AutoRefreshLoop ==
    /\ Alive /\ bg = "refresh" /\ rf["bg"].pc = "ret"
    /\ bg' = "wait"
    /\ rf' = [rf EXCEPT !["bg"] = IdleFrame]
    /\ UNCHANGED <<cfg, app, url, refreshEvery, publicKey, lastUpdated, mu,
                   heap, ret, handler, ticker, clock, crashed, nfetch, hp>>

\* Time passes.  A running ticker whose period has elapsed puts a tick
\* into its channel of capacity 1; the tick is dropped when one is waiting.
Advance ==
    /\ Alive /\ clock < MaxClock
    /\ clock' = clock + 1
    /\ ticker' = IF ticker.on /\ clock + 1 = ticker.next
                 THEN [ticker EXCEPT !.c = TRUE, !.next = @ + refreshEvery]
                 ELSE ticker
    /\ UNCHANGED <<cfg, app, url, refreshEvery, publicKey, lastUpdated, mu,
                   heap, ret, handler, rf, bg, crashed, nfetch, hp>>

\* ------------------------------------------------- the handler: pure parts
\* A string is a sequence of lexemes: the space character, or a run of
\* non-space characters.  Two neighbouring runs read as one longer word.
Space == " "
Bearer == <<"Bearer">>

\* The tokens a client may hold.  signer: the key pair that signed it;
\* exp, nbf: the time of the claim, when the token carries one.
\* tokA is valid until time 2; tokWin is valid from time 2 on.
TokenAtoms == {"tokA", "tokWin"}
JWT(a) ==
    CASE a = "tokA" -> [signer |-> "rsaA", exp |-> {2}, nbf |-> {}, claims |-> "alice"]
      [] a = "tokWin" -> [signer |-> "rsaB", exp |-> {}, nbf |-> {2}, claims |-> "bob"]

\* Authorization header values a client may send.
Headers ==
    {<<>>,
     <<"Token", Space, "tokA">>,
     <<"Bearer", Space, "junk">>}
    \cup {<<"Bearer", Space, a>> : a \in TokenAtoms}

\* Every header of at most MaxHdrLen lexemes.
Lexemes == {Space, "Bearer", "bearer", "junk"} \cup TokenAtoms
AllHeaders == UNION {[1..n -> Lexemes] : n \in 0..MaxHdrLen}

\* Bug: strings.Fields(s) in place of strings.Split(s, " "): runs of spaces
\* separate, and no piece is empty.
RECURSIVE SplitFields(_)
SplitFields(s) ==
    IF s = <<>> THEN <<>>
    ELSE IF s[1] = Space THEN SplitFields(Tail(s))
    ELSE IF \E i \in 1..Len(s) : s[i] = Space
    THEN LET i == CHOOSE k \in 1..Len(s) :
                     s[k] = Space /\ \A j \in 1..(k - 1) : s[j] # Space
         IN <<SubSeq(s, 1, i - 1)>> \o SplitFields(SubSeq(s, i + 1, Len(s)))
    ELSE <<s>>

\* strings.Split(s, " "): the pieces between the spaces, empty ones included.
RECURSIVE Split(_)
Split(s) ==
    IF \E i \in 1..Len(s) : s[i] = Space
    THEN LET i == CHOOSE k \in 1..Len(s) :
                     s[k] = Space /\ \A j \in 1..(k - 1) : s[j] # Space
         IN <<SubSeq(s, 1, i - 1)>> \o Split(SubSeq(s, i + 1, Len(s)))
    ELSE <<s>>

\* jwt.Parse, before the key function is called: the token string is cut
\* into its three segments and header and claims are decoded.
jwtWellFormed(tokenStr) == Len(tokenStr) = 1 /\ tokenStr[1] \in TokenAtoms

\* jwt.Parse, after the key function returned key: the signature is verified
\* with it, then the validator checks exp and nbf against time.Now().
jwtSignatureOK(tok, key) == key \in RSAKeys /\ tok.signer = key
jwtExpired(tok, now) == \E e \in tok.exp : now >= e
jwtNotYetValid(tok, now) == \E n \in tok.nbf : now < n
\* Bug: the validator is switched off (jwt.WithoutClaimsValidation).
jwtValidNoClaims(tok, key, now) == jwtSignatureOK(tok, key)

jwtValid(tok, key, now) ==
    /\ jwtSignatureOK(tok, key)
    /\ ~jwtExpired(tok, now)
    /\ ~jwtNotYetValid(tok, now)

\* The gin.Context of a request, as the handler leaves it.
NoCtx ==
    [aborted |-> FALSE, status |-> Nil, error |-> "", claims |-> "none",
     next |-> FALSE]

\* c.AbortWithStatusJSON(http.StatusUnauthorized, gin.H{"error": msg})
AbortWithStatusJSON(c, code, msg) ==
    [c EXCEPT !.aborted = TRUE, !.status = code, !.error = msg]

\* c.Set("claims", claims); c.Next()
SetClaimsAndNext(c, claims) ==
    [c EXCEPT !.claims = claims, !.next = TRUE]

\* key: what Get returned (Nil while none).  History: seen is r.publicKey
\* when Get was called (kept while Get runs), mat is the key material key
\* pointed to when Get read it.
IdleProc ==
    [pc |-> "idle", auth |-> <<>>, key |-> Nil, seen |-> Nil, mat |-> "nil",
     ctx |-> NoCtx]

\* The key object a pointer refers to.
Deref(ptr) == IF ptr = Nil THEN "nil" ELSE heap[ptr]

\* ---------------------------------------------------- the handler: steps
\* Bug: the handler calls remoteKey.Get() first, before it looks at the
\* header.
HandlerBeginGetsFirst(p, h) ==
    [IdleProc EXCEPT !.auth = h, !.pc = "rlock", !.seen = publicKey]

\* The handler up to the call of the key function: the header checks, the
\* split, and jwt.Parse's decoding of the token string.
HandlerBegin(p, h) ==
    LET parts == Split(h)
        fresh == [IdleProc EXCEPT !.auth = h]
    IN
    IF h = <<>>
    THEN [fresh EXCEPT !.pc = "done",
            !.ctx = AbortWithStatusJSON(NoCtx, StatusUnauthorized,
                                        "missing authorization header")]
    ELSE IF Len(parts) # 2 \/ parts[1] # Bearer
    THEN [fresh EXCEPT !.pc = "done",
            !.ctx = AbortWithStatusJSON(NoCtx, StatusUnauthorized,
                                        "invalid authorization format")]
    ELSE IF ~jwtWellFormed(parts[2])
    THEN [fresh EXCEPT !.pc = "done",
            !.ctx = AbortWithStatusJSON(NoCtx, StatusUnauthorized,
                                        "invalid or expired token")]
    ELSE [fresh EXCEPT !.pc = "rlock", !.seen = publicKey]

\* A request arrives: gin runs the handler VerifyToken returned;
\* c.GetHeader("Authorization") is a header of H.
RequestFrom(p, H) ==
    /\ Alive /\ handler /\ hp[p].pc \in {"idle", "done"}
    /\ \E h \in H : hp' = [hp EXCEPT ![p] = HandlerBegin(p, h)]
    /\ UNCHANGED <<cfg, app, url, refreshEvery, publicKey, lastUpdated, mu,
                   heap, ret, handler, rf, bg, ticker, clock, crashed, nfetch>>

Request(p) == RequestFrom(p, Headers)
RequestAny(p) == hp[p].pc = "idle" /\ RequestFrom(p, AllHeaders)

\* The handler function returns; gin is done with the request.
HandlerReturn(p) ==
    /\ Alive /\ handler /\ hp[p].pc = "done"
    /\ hp' = [hp EXCEPT ![p] = IdleProc]
    /\ UNCHANGED <<cfg, app, url, refreshEvery, publicKey, lastUpdated, mu,
                   heap, ret, handler, rf, bg, ticker, clock, crashed, nfetch>>

\* The direct caller calls r.Get().
GetCall(p) ==
    /\ Alive /\ cfg.mode = "direct" /\ app = "serving" /\ ret.r
    /\ hp[p].pc \in {"idle", "done"}
    /\ hp' = [hp EXCEPT ![p] = [IdleProc EXCEPT !.pc = "rlock", !.seen = publicKey]]
    /\ UNCHANGED <<cfg, app, url, refreshEvery, publicKey, lastUpdated, mu,
                   heap, ret, handler, rf, bg, ticker, clock, crashed, nfetch>>

\* Get: r.mu.RLock() returns once no writer holds or awaits the lock.
RLock(p) ==
    /\ Alive /\ hp[p].pc = "rlock"
    /\ ~mu.writer /\ ~mu.pending
    /\ mu' = [mu EXCEPT !.readers = @ \cup {p}]
    /\ hp' = [hp EXCEPT ![p].pc = "read"]
    /\ UNCHANGED <<cfg, app, url, refreshEvery, publicKey, lastUpdated, heap,
                   ret, handler, rf, bg, ticker, clock, crashed, nfetch>>

\* Get: the operand of return r.publicKey is evaluated.
LoadKey(p) == publicKey

ReadKey(p) ==
    /\ Alive /\ hp[p].pc = "read"
    /\ hp' = [hp EXCEPT ![p].pc = "runlock", ![p].key = LoadKey(p),
                         ![p].mat = Deref(LoadKey(p))]
    /\ UNCHANGED <<cfg, app, url, refreshEvery, publicKey, lastUpdated, mu,
                   heap, ret, handler, rf, bg, ticker, clock, crashed, nfetch>>

\* Get: the deferred r.mu.RUnlock() runs and Get returns.
RUnlock(p) ==
    /\ Alive /\ hp[p].pc = "runlock"
    /\ mu' = [mu EXCEPT !.readers = @ \ {p}]
    /\ hp' = [hp EXCEPT ![p].pc = IF cfg.mode = "middleware" THEN "verify"
                                   ELSE "done",
                         ![p].seen = Nil]
    /\ UNCHANGED <<cfg, app, url, refreshEvery, publicKey, lastUpdated, heap,
                   ret, handler, rf, bg, ticker, clock, crashed, nfetch>>

\* Bug: the return after the last AbortWithStatusJSON is missing.
HandlerEndFallsThrough(p) ==
    LET tok == JWT(Split(hp[p].auth)[2][1]) IN
    IF jwtValid(tok, Deref(hp[p].key), clock)
    THEN [hp[p] EXCEPT !.pc = "done", !.key = Nil, !.mat = "nil",
            !.ctx = SetClaimsAndNext(hp[p].ctx, tok.claims)]
    ELSE [hp[p] EXCEPT !.pc = "done", !.key = Nil, !.mat = "nil",
            !.ctx = SetClaimsAndNext(
                       AbortWithStatusJSON(hp[p].ctx, StatusUnauthorized,
                                           "invalid or expired token"),
                       tok.claims)]

\* Bug: tokenStr is a variable of VerifyToken, shared by all requests, and
\* not a local of the handler: a request verifies the token string that the
\* request running next to it assigned last.
HandlerEndSharedToken(p) ==
    LET q == CHOOSE r \in Procs : r # p
        src == IF hp[q].pc \in {"rlock", "read", "runlock", "verify"}
               THEN hp[q].auth ELSE hp[p].auth
        tok == JWT(Split(src)[2][1])
    IN
    IF jwtValid(tok, Deref(hp[p].key), clock)
    THEN [hp[p] EXCEPT !.pc = "done", !.key = Nil, !.mat = "nil",
            !.ctx = SetClaimsAndNext(hp[p].ctx, tok.claims)]
    ELSE [hp[p] EXCEPT !.pc = "done", !.key = Nil, !.mat = "nil",
            !.ctx = AbortWithStatusJSON(hp[p].ctx, StatusUnauthorized,
                                        "invalid or expired token")]

\* Bug: a grace period: a token signed with the key that was stored before
\* the current one is still accepted.
HandlerEndGrace(p) ==
    LET tok == JWT(Split(hp[p].auth)[2][1])
        prev == IF hp[p].key > 1 THEN hp[p].key - 1 ELSE hp[p].key
    IN
    IF \/ jwtValid(tok, Deref(hp[p].key), clock)
       \/ jwtValid(tok, Deref(prev), clock)
    THEN [hp[p] EXCEPT !.pc = "done", !.key = Nil, !.mat = "nil",
            !.ctx = SetClaimsAndNext(hp[p].ctx, tok.claims)]
    ELSE [hp[p] EXCEPT !.pc = "done", !.key = Nil, !.mat = "nil",
            !.ctx = AbortWithStatusJSON(hp[p].ctx, StatusUnauthorized,
                                        "invalid or expired token")]

\* The rest of the handler: jwt.Parse verifies and validates the token with
\* the key Get returned; err != nil || !token.Valid aborts, else the claims
\* are set and the next handler runs.
HandlerEnd(p) ==
    LET tok == JWT(Split(hp[p].auth)[2][1]) IN
    IF jwtValid(tok, Deref(hp[p].key), clock)
    THEN [hp[p] EXCEPT !.pc = "done", !.key = Nil, !.mat = "nil",
            !.ctx = SetClaimsAndNext(hp[p].ctx, tok.claims)]
    ELSE [hp[p] EXCEPT !.pc = "done", !.key = Nil, !.mat = "nil",
            !.ctx = AbortWithStatusJSON(hp[p].ctx, StatusUnauthorized,
                                        "invalid or expired token")]

\* Bug: a request whose token is refused evicts the cached key.
TokenVerifyEvicts(p) ==
    /\ Alive /\ hp[p].pc = "verify"
    /\ hp' = [hp EXCEPT ![p] = HandlerEnd(p)]
    /\ publicKey' = IF HandlerEnd(p).ctx.aborted THEN Nil ELSE publicKey
    /\ UNCHANGED <<cfg, app, url, refreshEvery, lastUpdated, mu,
                   heap, ret, handler, rf, bg, ticker, clock, crashed, nfetch>>

TokenVerify(p) ==
    /\ Alive /\ hp[p].pc = "verify"
    /\ hp' = [hp EXCEPT ![p] = HandlerEnd(p)]
    /\ UNCHANGED <<cfg, app, url, refreshEvery, publicKey, lastUpdated, mu,
                   heap, ret, handler, rf, bg, ticker, clock, crashed, nfetch>>

\* ------------------------------------------------------- the specification
Init ==
    /\ cfg \in Configs
    /\ app = "start"
    /\ url = ""
    /\ refreshEvery = 0
    /\ publicKey = Nil
    /\ lastUpdated = ZeroTime
    /\ mu = [writer |-> FALSE, pending |-> FALSE, readers |-> {}]
    /\ heap = <<>>
    /\ ret = [done |-> FALSE, r |-> FALSE, err |-> NoErr]
    /\ handler = FALSE
    /\ rf = [t \in Tasks |-> IdleFrame]
    /\ bg = "none"
    /\ ticker = [on |-> FALSE, c |-> FALSE, next |-> 0]
    /\ clock = 0
    /\ crashed = FALSE
    /\ nfetch = 0
    /\ hp = [p \in Procs |-> IdleProc]

RefreshStep(t) ==
    \/ HttpGetErr(t)
    \/ HttpGetOK(t)
    \/ HttpGetHang(t)
    \/ ReadAll(t)
    \/ PemDecode(t)
    \/ ParseKey(t)
    \/ AssertRSA(t)
    \/ LockCall(t)
    \/ LockAcquire(t)
    \/ AssignKey(t)
    \/ AssignTime(t)
    \/ Unlock(t)

ProcStep(p) ==
    \/ Request(p)
    \/ GetCall(p)
    \/ RLock(p)
    \/ ReadKey(p)
    \/ RUnlock(p)
    \/ TokenVerify(p)

Next ==
    \/ VerifyTokenStart
    \/ DirectStart
    \/ NewRemotePublicKeyReturn
    \/ VerifyTokenFinish
    \/ DirectFinish
    \/ NewTicker
    \/ TickerRecv
    \/ AutoRefreshLoop
    \/ Advance
    \/ \E t \in Tasks : RefreshStep(t)
    \/ \E p \in Procs : ProcStep(p)

Spec == Init /\ [][Next]_vars

\* One client sending every header of AllHeaders, one request after the
\* other, to a middleware that has just been built and whose key stays.
ServingFrame(b) ==
    [pc |-> "ret", resp |-> [body |-> b], raw |-> b, block |-> pemDecode(b),
     pub |-> ParsePKIXPublicKey(pemDecode(b)), err |-> NoErr, pre |-> NoPre]

JustBuilt ==
    /\ cfg = [mode |-> "middleware", env |-> KeyURL, every |-> DefaultRefresh]
    /\ app = "serving"
    /\ url = KeyURL
    /\ refreshEvery = DefaultRefresh
    /\ publicKey = 1
    /\ lastUpdated = 0
    /\ mu = [writer |-> FALSE, pending |-> FALSE, readers |-> {}]
    /\ \E k \in RSAKeys :
          /\ heap = <<k>>
          /\ rf = [t \in Tasks |->
                     IF t = "ctor"
                     THEN ServingFrame([pem |-> TRUE, der |-> "rsa", key |-> k])
                     ELSE IdleFrame]
    /\ ret = [done |-> TRUE, r |-> TRUE, err |-> NoErr]
    /\ handler = TRUE
    /\ bg = "wait"
    /\ ticker = [on |-> TRUE, c |-> FALSE, next |-> DefaultRefresh]
    /\ clock = 0
    /\ crashed = FALSE
    /\ nfetch = 1
    /\ hp = [p \in Procs |-> IdleProc]

Client == "p1"

NextHeaders ==
    \/ RequestAny(Client)
    \/ RLock(Client)
    \/ ReadKey(Client)
    \/ RUnlock(Client)
    \/ TokenVerify(Client)
    \/ HandlerReturn(Client)
    \/ Advance

SpecHeaders == JustBuilt /\ [][NextHeaders]_vars

\* The Go scheduler runs every runnable request goroutine: a step of Get or
\* of the handler that stays possible is taken.
FairSpec ==
    /\ Spec
    /\ \A p \in Procs :
          WF_vars(RLock(p) \/ ReadKey(p) \/ RUnlock(p) \/ TokenVerify(p))

\* ================================================================= claims
Constructed == ret.done /\ ret.r
InitialFetchFailed == rf["ctor"].pc = "ret" /\ rf["ctor"].err # NoErr
BgFailed == rf["bg"].pc = "ret" /\ rf["bg"].err # NoErr
\* Get has read r.publicKey for p, and p still holds what it read.
HasKey(p) == hp[p].pc \in {"runlock", "verify"} \/
             (hp[p].pc = "done" /\ cfg.mode = "direct")
BeforeStore == {"get", "hung", "read", "decode", "parse", "assert"}
InWriteSection == {"setkey", "settime", "unlock"}
InFlight(p) == hp[p].pc \in {"rlock", "read", "runlock", "verify"}

\* C1: once NewRemotePublicKey has returned a cache, r.publicKey is never nil
\* and points to an RSA key, whatever the background refreshes did; no Get
\* returns nil; and while no background refresh has stored a key, Get returns
\* the key the constructor's fetch decoded.
C1_KeyNeverEmpty ==
    Constructed =>
       /\ publicKey # Nil
       /\ Deref(publicKey) \in RSAKeys
       /\ \A p \in Procs : HasKey(p) => hp[p].key # Nil /\ hp[p].mat # "nil"
       /\ Len(heap) = 1 =>
             \A p \in Procs :
                HasKey(p) => hp[p].mat = rf["ctor"].resp.body.key

\* C1 witness: a Get returned the constructor's key after a background
\* refresh had failed.
C1_Witness ==
    /\ Constructed /\ BgFailed
    /\ \E p \in Procs : hp[p].pc = "runlock" /\ hp[p].seen = 1 /\ hp[p].key = 1

\* C2: when the constructor's fetch fails (for any of its reasons),
\* NewRemotePublicKey returns nil and the error, starts no autoRefresh
\* goroutine and no ticker, no key is stored, VerifyToken panics instead of
\* returning a handler, and no request or Get is ever served.
C2_FailFast ==
    InitialFetchFailed =>
       /\ bg = "none" /\ ~ticker.on
       /\ publicKey = Nil /\ lastUpdated = ZeroTime /\ heap = <<>>
       /\ ~handler
       /\ ret.done => ~ret.r /\ ret.err = rf["ctor"].err
       /\ app \in {"ctor", "returned", "failed", "panicked"}
       /\ cfg.mode = "middleware" /\ app # "ctor" /\ app # "returned"
             => app = "panicked" /\ crashed
       /\ \A p \in Procs : hp[p] = IdleProc

\* C2 witness: VerifyToken panicked because the endpoint served a key that
\* is not an RSA key.
C2_Witness ==
    /\ cfg.mode = "middleware" /\ app = "panicked" /\ ret.done
    /\ ret.err = "not RSA public key"

\* C3: while a background refresh has stored nothing yet, and after it has
\* failed at whatever step, r.publicKey and r.lastUpdated are what they were
\* when it started, a Get reads that same key, and the failure reaches no
\* caller: the process lives and the cache stays returned without error.
C3_FailedRefreshKeepsKey ==
    (bg = "refresh" /\ (rf["bg"].pc \in BeforeStore \/ BgFailed)) =>
       /\ publicKey = rf["bg"].pre.key
       /\ lastUpdated = rf["bg"].pre.ts
       /\ publicKey # Nil
       /\ \A p \in Procs : hp[p].pc = "read" => LoadKey(p) = rf["bg"].pre.key
       /\ BgFailed => ~crashed /\ ret.r /\ ret.err = NoErr /\ app # "panicked"

\* C3 witness: the second background refresh failed at the type check, after
\* the first had replaced the key, and a Get then read the replaced key.
C3_Witness ==
    /\ BgFailed /\ rf["bg"].err = "not RSA public key"
    /\ publicKey = 2
    /\ \E p \in Procs : hp[p].pc = "runlock" /\ hp[p].key = 2

\* C4: what a Get returns is a key object whose store completed before the
\* Get read it, and which came out of a fetch that passed every validation:
\* it is an RSA key, never a key still held by a refresh in flight, and no
\* Get reads while a store is under way.
C4_GetReturnsInstalledKey ==
    \A p \in Procs :
       /\ HasKey(p) =>
             /\ hp[p].key \in 1..Len(heap)
             /\ hp[p].key <= publicKey
             /\ hp[p].mat \in RSAKeys
       /\ hp[p].pc = "runlock" =>
             \A t \in Tasks : rf[t].pc \notin InWriteSection

\* C4 witness: a Get returned the constructor's key while a background
\* refresh held a different, validated key it had not stored yet.
C4_Witness ==
    \E p \in Procs :
       /\ hp[p].pc = "runlock" /\ hp[p].key = 1
       /\ rf["bg"].pc = "lockwait"
       /\ rf["bg"].pub.key # hp[p].mat

\* C5: a Get called after a refresh stored a key returns that key or one
\* stored later (stores are numbered in their order), and the key a finished
\* Get returned is not changed by a later store.
C5_NewKeyVisible ==
    \A p \in Procs :
       /\ hp[p].pc = "runlock" => hp[p].seen <= hp[p].key
       /\ HasKey(p) => Deref(hp[p].key) = hp[p].mat

\* C5 witness: one Get returned the refreshed key, called after its store,
\* while another caller still holds the different key it got before.
C5_Witness ==
    \E p, q \in Procs :
       /\ hp[p].pc = "runlock" /\ hp[p].seen = 2 /\ hp[p].key = 2
       /\ hp[q].pc = "done" /\ hp[q].key = 1
       /\ hp[q].mat # hp[p].mat

\* C6: the write lock is neither held nor requested while refresh() is in
\* http.Get, io.ReadAll, pem.Decode, ParsePKIXPublicKey or the type check;
\* it is held only in the two assignments.  No step of Get or of the handler
\* starts a fetch or moves a refresh.
C6_LockHeld ==
    /\ \A t \in Tasks : rf[t].pc \in BeforeStore => ~mu.writer /\ ~mu.pending
    /\ mu.writer => \E t \in Tasks : rf[t].pc \in InWriteSection
C6_NoFetchByReaders ==
    (hp' # hp) => (nfetch' = nfetch /\ rf' = rf /\ bg' = bg)
C6_NoLockDuringFetch == []C6_LockHeld /\ [][C6_NoFetchByReaders]_vars

\* C6 witness: a background refresh is in its network call while a Get is
\* inside its read section.
C6_Witness ==
    /\ rf["bg"].pc = "get" /\ ~mu.writer
    /\ \E p \in Procs : hp[p].pc = "runlock" /\ p \in mu.readers

\* C7: while the background fetch hangs in http.Get, every Get and every
\* handler run that is under way completes, and a Get returns the key that
\* is stored.
C7_HungKeepsKey ==
    rf["bg"].pc = "hung" =>
       \A p \in Procs : hp[p].pc = "runlock" => hp[p].key = publicKey /\ hp[p].key # Nil
C7_HungFetchStallsOnlyRefresh ==
    /\ \A p \in Procs :
          (rf["bg"].pc = "hung" /\ InFlight(p)) ~> (hp[p].pc = "done")
    /\ []C7_HungKeepsKey

\* C7 witness: with the background fetch hung, one request was served to the
\* end and a Get of another is returning the stored key.
C7_Witness ==
    /\ rf["bg"].pc = "hung"
    /\ \E p, q \in Procs :
          /\ hp[p].pc = "runlock" /\ hp[p].seen # Nil
          /\ hp[q].pc = "done" /\ hp[q].ctx.next

\* Spec violates this: the initial states of SpecHeaders are states the
\* program reaches.
JustBuiltNeverReached == ~JustBuilt

\* What the claims call the form "Bearer <token>": one space in the whole
\* value, right after the word Bearer.
SpaceCount(h) == Cardinality({i \in 1..Len(h) : h[i] = Space})
BearerForm(h) ==
    Len(h) >= 2 /\ h[1] = "Bearer" /\ h[2] = Space /\ SpaceCount(h) = 1
MsgMissing == "missing authorization header"
MsgFormat == "invalid authorization format"
MsgInvalid == "invalid or expired token"
Served(p) == handler /\ hp[p].pc # "idle"

\* C8: the handler classifies the header in a fixed order: the empty value
\* is answered "missing authorization header"; any other value that is not
\* one word Bearer, one space and a rest without space (so: another scheme,
\* another case, no space at all, a second space anywhere) is answered
\* "invalid authorization format"; and exactly the values that pass both
\* checks reach the validation of the token.
C8_HeaderClassification ==
    \A p \in Procs :
       Served(p) =>
          LET h == hp[p].auth
              e == hp[p].ctx.error
          IN /\ h = <<>> => hp[p].pc = "done" /\ e = MsgMissing
             /\ h # <<>> /\ ~BearerForm(h) => hp[p].pc = "done" /\ e = MsgFormat
             /\ h # <<>> /\ BearerForm(h) => e \in {"", MsgInvalid}
             /\ InFlight(p) => h # <<>> /\ BearerForm(h)

\* C8 witness: "Bearer  tokA", with two spaces, was answered with the format
\* error.
C8_Witness ==
    /\ hp[Client].pc = "done"
    /\ hp[Client].auth = <<"Bearer", Space, Space, "tokA">>
    /\ hp[Client].ctx.error = MsgFormat

\* C9 as claimed: the token of a "Bearer <token>" header is accepted, with
\* its claims, exactly when it is well formed, signed by the key Get
\* returned, and not expired.
C9_AcceptedAsClaimed(p) ==
    (hp[p].pc = "verify" /\ hp'[p].pc = "done") =>
       LET tok == JWT(hp[p].auth[3]) IN
       hp'[p].ctx.next <=>
          /\ tok.signer = hp[p].mat
          /\ \A e \in tok.exp : clock < e
C9_Original == [][\A p \in Procs : C9_AcceptedAsClaimed(p)]_vars

\* C9 (amended): the token of a "Bearer <token>" header is accepted, and its
\* claims are set unchanged, exactly when it is well formed, signed by the
\* key Get returned in this call, not expired and not before its nbf time;
\* every other token is answered "invalid or expired token" with status 401.
C9_Accepted(p) ==
    (hp[p].pc = "verify" /\ hp'[p].pc = "done") =>
       LET tok == JWT(hp[p].auth[3])
           ok == /\ tok.signer = hp[p].mat
                 /\ \A e \in tok.exp : clock < e
                 /\ \A n \in tok.nbf : clock >= n
       IN IF ok
          THEN hp'[p].ctx = [NoCtx EXCEPT !.claims = tok.claims, !.next = TRUE]
          ELSE hp'[p].ctx = [NoCtx EXCEPT !.aborted = TRUE,
                                          !.status = StatusUnauthorized,
                                          !.error = MsgInvalid]
C9_MalformedToken(p) ==
    (hp'[p].pc = "done" /\ hp'[p] # hp[p] /\ hp[p].pc # "verify" /\ handler
       /\ BearerForm(hp'[p].auth)) =>
       /\ ~(Len(hp'[p].auth) = 3 /\ hp'[p].auth[3] \in TokenAtoms)
       /\ hp'[p].ctx = [NoCtx EXCEPT !.aborted = TRUE,
                                     !.status = StatusUnauthorized,
                                     !.error = MsgInvalid]
C9_TokenOutcome ==
    [][\A p \in Procs : C9_Accepted(p) /\ C9_MalformedToken(p)]_vars

\* C9 witness: the same token tokWin was accepted in one request and
\* refused in another.
C9_Witness ==
    \E p, q \in Procs :
       /\ hp[p].pc = "done" /\ hp[p].auth = <<"Bearer", Space, "tokWin">>
       /\ hp[p].ctx.next /\ hp[p].ctx.claims = "bob"
       /\ hp[q].pc = "done" /\ hp[q].auth = <<"Bearer", Space, "tokWin">>
       /\ hp[q].ctx.error = MsgInvalid

\* C10: a finished handler run left the request in exactly one of two
\* states: aborted with status 401 and one of the three messages, no claims
\* set and the next handler not run; or not aborted, nothing written, the
\* claims set and the next handler run.  Before it finishes, neither.
C10_Failure(c) ==
    /\ c.aborted /\ c.status = StatusUnauthorized
    /\ c.error \in {MsgMissing, MsgFormat, MsgInvalid}
    /\ c.claims = "none" /\ ~c.next
C10_Success(c) ==
    /\ ~c.aborted /\ c.status = Nil /\ c.error = ""
    /\ c.claims # "none" /\ c.next
C10_OneOutcome ==
    \A p \in Procs :
       /\ (handler /\ hp[p].pc = "done") =>
             C10_Failure(hp[p].ctx) # C10_Success(hp[p].ctx)
       /\ hp[p].pc # "done" => hp[p].ctx = NoCtx

\* C10 witness: one request was refused for its missing header and another
\* went on to the next handler with its claims.
C10_Witness ==
    \E p, q \in Procs :
       /\ hp[p].pc = "done" /\ hp[p].ctx.error = MsgMissing
       /\ hp[p].ctx.status = StatusUnauthorized
       /\ hp[q].pc = "done" /\ hp[q].ctx.next /\ hp[q].ctx.claims = "alice"

\* C11: a step of a request goroutine (the handler, and the Get inside it),
\* whether the request is served or refused, changes nothing of the cache
\* (publicKey, lastUpdated, url, refreshEvery, the key objects), nothing of
\* the refresh task (its frame, its ticker, its count of fetches), nothing of
\* another request, and of the mutex only its own read hold, which it has
\* given back when it is done; and a request starts from nothing the one
\* before it on the same goroutine left.
C11_OwnStep(p) ==
    hp'[p] # hp[p] =>
       /\ UNCHANGED <<publicKey, lastUpdated, url, refreshEvery, heap>>
       /\ UNCHANGED <<rf, bg, ticker, nfetch, crashed, ret, handler>>
       /\ \A q \in Procs \ {p} : hp'[q] = hp[q]
       /\ mu'.writer = mu.writer /\ mu'.pending = mu.pending
       /\ mu'.readers \ {p} = mu.readers \ {p}
       /\ hp[p].pc \in {"idle", "done"} =>
             /\ hp'[p].key = Nil /\ hp'[p].mat = "nil"
             /\ hp'[p].ctx.claims = "none" /\ ~hp'[p].ctx.next
             /\ hp'[p].pc # "done" => hp'[p].ctx = NoCtx
C11_ReadHold ==
    \A p \in Procs : p \in mu.readers <=> hp[p].pc \in {"read", "runlock"}
C11_VerifyLeavesCache ==
    []C11_ReadHold /\ [][\A p \in Procs : C11_OwnStep(p)]_vars

\* C11 witness: one request was refused for its token and another was
\* served, and a background refresh that ran next to them stored its key.
C11_Witness ==
    /\ rf["bg"].pc = "ret" /\ rf["bg"].err = NoErr /\ publicKey = 2
    /\ \E p, q \in Procs :
          /\ hp[p].pc = "done" /\ hp[p].ctx.error = MsgInvalid
          /\ hp[q].pc = "done" /\ hp[q].ctx.next

\* C12 as claimed: once NewRemotePublicKey has returned a cache, whatever
\* interval it was given, the autoRefresh goroutine has not ended and the
\* process has not died of a panic.
C12_TaskNeverDies ==
    Constructed => ~crashed /\ bg # "dead"

\* C12 witness: NewRemotePublicKey(url, 0) returned a cache with its key,
\* and time.NewTicker(0) then panicked in autoRefresh.
C12_Witness ==
    /\ Constructed /\ ret.err = NoErr /\ publicKey # Nil
    /\ refreshEvery = 0 /\ bg = "dead" /\ crashed

\* C13: one lock guards r.publicKey and r.lastUpdated.  While refresh() is
\* between Lock and Unlock it holds the lock as writer and no Get is inside
\* its read section; both fields are assigned only there, the key first and
\* the time next, and the lock is released only after both; and in a live
\* process RLock waits for a writer only, never for another reader.
InReadSection(p) == hp[p].pc \in {"read", "runlock"}
C13_Exclusion ==
    /\ \A t \in Tasks :
          rf[t].pc \in InWriteSection =>
             mu.writer /\ mu.readers = {} /\ \A p \in Procs : ~InReadSection(p)
    /\ Cardinality({t \in Tasks : rf[t].pc \in InWriteSection}) <= 1
    /\ \A p \in Procs :
          Alive /\ hp[p].pc = "rlock" /\ ~mu.writer /\ ~mu.pending
             => ENABLED RLock(p)
C13_Together ==
    /\ (publicKey' # publicKey \/ heap' # heap) =>
          \E t \in Tasks : rf[t].pc = "setkey" /\ rf'[t].pc = "settime"
    /\ lastUpdated' # lastUpdated =>
          \E t \in Tasks : rf[t].pc = "settime" /\ rf'[t].pc = "unlock"
    /\ (mu.writer /\ ~mu'.writer) =>
          \E t \in Tasks : /\ rf[t].pc = "unlock"
                           /\ publicKey = Len(heap)
                           /\ publicKey # rf[t].pre.key
                           /\ lastUpdated >= rf[t].pre.ts
C13_OneLock == []C13_Exclusion /\ [][C13_Together]_vars

\* C13 witness: two Gets are inside their read sections at once, and the
\* refresh that wants to store its key waits for them.
C13_Witness ==
    /\ mu.readers = Procs /\ \A p \in Procs : InReadSection(p)
    /\ rf["bg"].pc = "lockwait" /\ mu.pending /\ ~mu.writer

\* The outcome of one handler run alone, with the key k in the cache and
\* the token validated at time now.
Refused(msg) ==
    [NoCtx EXCEPT !.aborted = TRUE, !.status = StatusUnauthorized, !.error = msg]
SingleThreaded(h, k, now) ==
    IF h = <<>> THEN Refused(MsgMissing)
    ELSE IF ~BearerForm(h) THEN Refused(MsgFormat)
    ELSE IF ~(Len(h) = 3 /\ h[3] \in TokenAtoms) THEN Refused(MsgInvalid)
    ELSE LET tok == JWT(h[3]) IN
         IF /\ tok.signer = k
            /\ \A e \in tok.exp : now < e
            /\ \A n \in tok.nbf : now >= n
         THEN [NoCtx EXCEPT !.claims = tok.claims, !.next = TRUE]
         ELSE Refused(MsgInvalid)
\* Every key the cache has held is the same key.
StableKey == heap # <<>> /\ \A i \in 1..Len(heap) : heap[i] = heap[1]

\* C14: while every key the cache has held is the same key (refreshes fail
\* or store that key again), a handler run that ends, next to whatever other
\* requests and refresh steps, leaves the outcome the same header has in a
\* run alone at the time its token is validated; and every key a Get
\* returns is that one key, whole.
C14_SameAsAlone(p) ==
    (handler /\ StableKey /\ hp'[p] # hp[p] /\ hp'[p].pc = "done") =>
       hp'[p].ctx = SingleThreaded(hp'[p].auth, heap[1], clock)
C14_WholeKey ==
    StableKey => \A p \in Procs : HasKey(p) => hp[p].mat = heap[1]
C14_ConcurrentAsSequential ==
    []C14_WholeKey /\ [][\A p \in Procs : C14_SameAsAlone(p)]_vars

\* C14 witness: a refresh has stored the same key again and is storing it
\* once more, one request with a token of that key was served, and another
\* with the same header is verifying its token.
C14_Witness ==
    /\ Len(heap) = 2 /\ StableKey /\ rf["bg"].pc \in {"lock", "lockwait"}
    /\ \E p, q \in Procs :
          /\ p # q /\ hp[p].auth = hp[q].auth
          /\ hp[p].pc = "done" /\ hp[p].ctx.next
          /\ hp[q].pc = "verify"

\* A call of refresh() that has not returned.
Running(t) == rf[t].pc \notin {"idle", "ret"}

\* C15: the autoRefresh goroutine exists exactly when NewRemotePublicKey
\* returned a cache, so only after the first fetch succeeded; after that the
\* constructor's refresh never runs again and only the goroutine's refresh
\* assigns r.publicKey and r.lastUpdated; a refresh starts only when none is
\* running, even when ticks arrive faster than a fetch returns, so no store
\* happens between the start of a refresh and its own store.
C15_OneTask ==
    /\ bg # "none" <=> Constructed
    /\ Constructed => rf["ctor"].pc = "ret" /\ rf["ctor"].err = NoErr
    /\ Running("bg") => bg = "refresh"
    /\ Cardinality({t \in Tasks : Running(t)}) <= 1
C15_OneWriter ==
    /\ (Constructed /\ (publicKey' # publicKey \/ lastUpdated' # lastUpdated))
          => bg = "refresh" /\ rf'["bg"] # rf["bg"] /\ rf'["ctor"] = rf["ctor"]
    /\ nfetch' # nfetch => \A t \in Tasks : ~Running(t)
    /\ publicKey' # publicKey =>
          \E t \in Tasks : rf[t].pc = "setkey" /\ rf[t].pre.key = publicKey
C15_SingleSequentialRefresher == []C15_OneTask /\ [][C15_OneWriter]_vars

\* C15 witness: the next tick is already waiting in the ticker's channel
\* while the refresh of the tick before has just stored its key.
C15_Witness ==
    /\ bg = "refresh" /\ ticker.c
    /\ rf["bg"].pc = "settime" /\ publicKey = 2

\* C16: the ticker alone triggers the background fetches.  Its next tick is
\* always due within one interval; it changes only when it is created, when
\* time passes and when the loop takes a tick, never when a refresh returns,
\* with or without error; a background refresh starts only by taking a tick
\* (no retry without one); and after a refresh returned, failed or not, the
\* loop goes back to waiting and takes the tick that is there.
C16_TickerOnTime ==
    /\ ticker.on => clock < ticker.next /\ ticker.next <= clock + refreshEvery
    /\ (Alive /\ bg = "refresh" /\ rf["bg"].pc = "ret") => ENABLED AutoRefreshLoop
    /\ (Alive /\ bg = "wait" /\ ticker.c /\ nfetch < MaxFetches) => ENABLED TickerRecv
C16_TickerSteps ==
    /\ ticker' # ticker =>
          \/ ~ticker.on /\ ticker'.on /\ bg = "newticker"
          \/ clock' # clock
          \/ /\ ticker.c /\ ticker' = [ticker EXCEPT !.c = FALSE]
             /\ bg = "wait" /\ bg' = "refresh" /\ nfetch' = nfetch + 1
    /\ (Constructed /\ nfetch' # nfetch) => ticker.c /\ ~ticker'.c
    /\ (bg = "refresh" /\ bg' # bg) =>
          rf["bg"].pc = "ret" /\ bg' = "wait" /\ rf'["bg"] = IdleFrame
C16_FixedSchedule == []C16_TickerOnTime /\ [][C16_TickerSteps]_vars

\* C16 witness: the refresh of the first tick stored nothing (it failed),
\* and the refresh of the second tick, one interval later, has started.
C16_Witness ==
    /\ refreshEvery = 1 /\ clock = 2 /\ nfetch = 3
    /\ bg = "refresh" /\ rf["bg"].pc = "get"
    /\ publicKey = 1 /\ lastUpdated = 0

\* The handler of p validates its token with a key that a refresh stored in
\* place of a different one.
UsesReplacingKey(p) ==
    /\ hp[p].pc = "verify" /\ hp'[p].pc = "done"
    /\ hp[p].key >= 2 /\ heap[hp[p].key] # heap[hp[p].key - 1]
Unexpired(tok) == \A e \in tok.exp : clock < e

\* C17 as claimed: a handler run that gets a key stored in place of a
\* different one refuses an unexpired token signed with the replaced key and
\* accepts every unexpired token signed with the key it got.
C17_NoGraceAsClaimed(p) ==
    UsesReplacingKey(p) =>
       LET tok == JWT(hp[p].auth[3]) IN
       /\ (Unexpired(tok) /\ tok.signer = heap[hp[p].key - 1])
             => hp'[p].ctx = Refused(MsgInvalid)
       /\ (Unexpired(tok) /\ tok.signer = heap[hp[p].key])
             => hp'[p].ctx = [NoCtx EXCEPT !.claims = tok.claims, !.next = TRUE]
C17_Original == [][\A p \in Procs : C17_NoGraceAsClaimed(p)]_vars

\* C17 (amended): the key a Get returns is never older than the key stored
\* when the Get was called; and a handler run that gets a key stored in
\* place of a different one refuses every token signed with the replaced
\* key, and accepts a token signed with the key it got when the token is
\* unexpired and its nbf time has come.
C17_NoGrace(p) ==
    UsesReplacingKey(p) =>
       LET tok == JWT(hp[p].auth[3]) IN
       /\ tok.signer = heap[hp[p].key - 1] => hp'[p].ctx = Refused(MsgInvalid)
       /\ (/\ tok.signer = heap[hp[p].key]
           /\ Unexpired(tok)
           /\ \A n \in tok.nbf : clock >= n)
             => hp'[p].ctx = [NoCtx EXCEPT !.claims = tok.claims, !.next = TRUE]
C17_CurrentKey ==
    \A p \in Procs :
       hp[p].pc = "runlock" =>
          /\ hp[p].seen <= hp[p].key /\ hp[p].key <= publicKey
          /\ hp[p].seen = publicKey => hp[p].key = publicKey
C17_OnlyCurrentKey ==
    []C17_CurrentKey /\ [][\A p \in Procs : C17_NoGrace(p)]_vars

\* C17 witness: a refresh stored rsaA in place of rsaB; after it a token
\* signed with rsaA was accepted and one signed with rsaB was refused.
C17_Witness ==
    /\ heap = <<"rsaB", "rsaA">>
    /\ \E p, q \in Procs :
          /\ hp[p].pc = "done" /\ hp[p].auth = <<"Bearer", Space, "tokA">>
          /\ hp[p].ctx.next
          /\ hp[q].pc = "done" /\ hp[q].auth = <<"Bearer", Space, "tokWin">>
          /\ hp[q].ctx.error = MsgInvalid

\* C18: r.lastUpdated is assigned only by refresh(), right after it assigned
\* r.publicKey in the same call, and then always, also when the key fetched
\* is the one already held; it takes the time of the assignment and never
\* goes back; a refresh that fails, a Get and a handler run leave it alone;
\* and whenever no refresh is between Lock and Unlock, it is set exactly
\* when r.publicKey is not nil.
C18_SetIffKey ==
    /\ (\A t \in Tasks : rf[t].pc \notin InWriteSection) =>
          (lastUpdated # ZeroTime <=> publicKey # Nil)
    /\ lastUpdated # ZeroTime => publicKey # Nil
    /\ lastUpdated <= clock
C18_Steps ==
    /\ lastUpdated' >= lastUpdated
    /\ lastUpdated' # lastUpdated =>
          \E t \in Tasks : /\ rf[t].pc = "settime" /\ rf'[t].pc = "unlock"
                           /\ publicKey = Len(heap)
                           /\ publicKey # rf[t].pre.key
    /\ \A t \in Tasks :
          /\ (rf[t].pc = "settime" /\ rf'[t] # rf[t]) => lastUpdated' = clock
          /\ (rf[t].pc = "setkey" /\ rf'[t] # rf[t]) =>
                rf'[t].pc = "settime" /\ publicKey' # publicKey
          /\ (rf[t].pc # "ret" /\ rf'[t].pc = "ret" /\ rf'[t].err # NoErr) =>
                lastUpdated' = rf[t].pre.ts /\ publicKey' = rf[t].pre.key
          /\ (rf[t].pc # "ret" /\ rf'[t].pc = "ret" /\ rf'[t].err = NoErr) =>
                lastUpdated' # ZeroTime /\ publicKey' # rf[t].pre.key
    /\ hp' # hp => lastUpdated' = lastUpdated
C19_NoKeyNeeded ==
    \A p \in Procs :
       (Served(p) /\ (hp[p].auth = <<>> \/ ~BearerForm(hp[p].auth))) =>
          /\ hp[p].pc = "done"
          /\ hp[p].ctx = IF hp[p].auth = <<>> THEN Refused(MsgMissing)
                         ELSE Refused(MsgFormat)
          /\ hp[p].key = Nil /\ hp[p].seen = Nil /\ hp[p].mat = "nil"
          /\ p \notin mu.readers
C19_GetOnce(p) ==
    /\ (handler /\ hp'[p].pc = "rlock" /\ hp'[p] # hp[p]) =>
          hp[p].pc \in {"idle", "done"} /\ BearerForm(hp'[p].auth)
    /\ hp[p].pc = "rlock" => hp'[p].pc \in {"rlock", "read"}
    /\ hp[p].pc = "read" => hp'[p].pc \in {"read", "runlock"}
    /\ hp[p].pc = "runlock" => hp'[p].pc \in {"runlock", "verify", "done"}
    /\ hp[p].pc = "verify" => hp'[p].pc \in {"verify", "done"}
    /\ (hp'[p].key # hp[p].key /\ hp'[p].key # Nil) =>
          hp[p].pc = "read" /\ hp'[p].pc = "runlock"
C19_HeaderErrorsWithoutKey ==
    []C19_NoKeyNeeded /\ [][\A p \in Procs : C19_GetOnce(p)]_vars

\* C19 witness: with the key rsaA in the cache, the header "bearer tokA",
\* whose token that key verifies, was refused for its format.
C19_Witness ==
    /\ heap = <<"rsaA">> /\ clock = 0 /\ mu.readers = {}
    /\ hp[Client].pc = "done"
    /\ hp[Client].auth = <<"bearer", Space, "tokA">>
    /\ hp[Client].ctx = Refused(MsgFormat) /\ hp[Client].key = Nil
====
